---- MODULE Spec2Model ----
(***************************************************************************)
(* cb_patcher: the archive synchronisation of Patcher::sync               *)
(* (src/src/patcher.rs), run from the command line (src/src/main.rs) or   *)
(* on a worker thread started by the GUI (src/src/gui.rs).                *)
(*                                                                         *)
(* A zip entry name is a record [segs, dir]: its '/'-separated segments   *)
(* and whether it ends in '/'.  A path below a mod root is the sequence   *)
(* of its segments.  A mod root holds files (path -> content) and         *)
(* directories (a set of paths).                                           *)
(***************************************************************************)
EXTENDS Integers, Sequences, FiniteSets, TLC

VARIABLES
    archive,          \* the zipball the remote serves for the branch
    faulty,           \* the calls that can return an error in this environment
    http,             \* the last exchange of GitHubClient outside sync: call, response, result
    fs,               \* fs[root]: the regular files below the root, path -> content
    dirs,             \* dirs[root]: the directories below the root
    progress_log,     \* PatcherApp.progress_log, the Vec behind the Arc<Mutex<..>>
    game_path,        \* PatcherApp.game_path
    target_mod_path,  \* PatcherApp.target_mod_path
    state,            \* PatcherApp.state
    frame,            \* position of the foreground inside PatcherApp::update
    pc,               \* pc[w]: position of run w inside sync / the worker closure
    mod_path,         \* mod_path[w]: Patcher.mod_path of run w
    logger,           \* logger[w]: TRUE when sync was given Some(logger)
    root_name,        \* root_name[w]
    idx,              \* idx[w]: the loop index i over the archive (1-based)
    processed_files,  \* processed_files[w]
    todo,             \* todo[w]: entries the directory walk has still to yield
    out,              \* out[w]: every message run w handed to its log closure
    writes,           \* writes[w]: paths fs::write succeeded on in run w
    removes,          \* removes[w]: paths fs::remove_file succeeded on in run w
    start_fs,         \* start_fs[w]: the files of the root when run w began
    io_errors,        \* io_errors[w]: the calls of run w that returned an error
    runs,             \* number of runs started so far
    prev,             \* outcome of the run before the current one (command line)
    orig              \* the files of the command line's root in the initial state

vars == <<archive, faulty, http, fs, dirs, progress_log, game_path, target_mod_path, state, frame,
          pc, mod_path, logger, root_name, idx, processed_files, todo, out,
          writes, removes, start_fs, io_errors, runs, prev, orig>>

guiVars == <<game_path, target_mod_path, state, frame>>
histVars == <<prev, orig>>
runVars == <<writes, removes, start_fs, io_errors>>

-----------------------------------------------------------------------------
(* Bounds *)

MaxEntries == 2      \* longest archive drawn in Init
MaxLocal == 2        \* most files in a local tree drawn in Init
MaxRuns == 2         \* runs of the command line tool in a behaviour
MaxWorkers == 2      \* worker threads the GUI starts in a behaviour

Workers == 1..MaxWorkers

None == "None"

\* Option<PathBuf> holding no path
NoPath == <<>>

-----------------------------------------------------------------------------
(* Paths and archive entries *)

Name(segs, isDir) == [segs |-> segs, dir |-> isDir]

ZipEntry(segs, isDir, data) == [name |-> Name(segs, isDir), data |-> data]

EntryUniverse ==
    { ZipEntry(<<"r">>, TRUE, ""),
      ZipEntry(<<"r", "a.lua">>, FALSE, "X"),
      ZipEntry(<<"r", "sub", "b.lua">>, FALSE, "Y"),
      ZipEntry(<<"r", ".gitignore">>, FALSE, "X"),
      ZipEntry(<<"r", ".env">>, FALSE, "X"),
      ZipEntry(<<"README">>, FALSE, "X") }

\* entry names are unique inside one zipball
Archives ==
    { s \in UNION { [1..n -> EntryUniverse] : n \in 0..MaxEntries } :
        \A i, j \in DOMAIN s : i # j => s[i].name # s[j].name }

\* the local trees drawn in Init
LocalChoices ==
    { <<"a.lua">> :> c : c \in {"X", "Y"} } \cup
    { <<"old.lua">> :> "Z", <<".DS_Store">> :> "Z",
      <<"sub", "Thumbs.db">> :> "Z", <<".gitignore">> :> "Z" }

Merge(f, g) == [p \in DOMAIN f \cup DOMAIN g |-> IF p \in DOMAIN g THEN g[p] ELSE f[p]]

RECURSIVE MergeAll(_)
MergeAll(S) ==
    IF S = {} THEN <<>>
    ELSE LET f == CHOOSE f \in S : TRUE IN Merge(MergeAll(S \ {f}), f)

LocalTrees ==
    { MergeAll(S) : S \in { T \in SUBSET LocalChoices :
        /\ Cardinality(T) <= MaxLocal
        /\ \A f, g \in T : f # g => DOMAIN f # DOMAIN g } }

\* the directories a set of file paths implies
ParentsOf(p) == { SubSeq(p, 1, n) : n \in 1..(Len(p) - 1) }

DirsOf(files) == UNION { ParentsOf(p) : p \in DOMAIN files }


-----------------------------------------------------------------------------
(* Mod roots *)

Games == {"g1"}

ModDirNames == {"conch_blessing_id", "conch_blessing", "conch_blessing_x"}

ModDir(game, dirName) == <<game, "mods", dirName>>

GuiRoots == { ModDir(g, d) : g \in Games, d \in ModDirNames }

\* main: mod_path.join("conch_blessing")
CliRoot == <<"cli", "mods", "conch_blessing">>

Roots == GuiRoots \cup {CliRoot}

-----------------------------------------------------------------------------
(* GitHubClient: what a request makes of its response *)

\* a response body: the fragments of its text
Bodies ==
    { <<>>, <<"API ", "rate limit", " exceeded">>, <<"API ", "Rate Limit", " exceeded">>,
      <<"Not Found">>, <<"{tree}">>, <<"PK">> }

Statuses == {200, 403, 404, 500}

\* send() failed: there is no response
NoResponse == [sent |-> FALSE, read |-> FALSE, status |-> 0, body |-> <<>>]

\* read: whether the body can be read to its end
Responses ==
    {NoResponse} \cup [sent : {TRUE}, read : BOOLEAN, status : Statuses, body : Bodies]

\* resp.status().is_success()
IsSuccess(status) == status >= 200 /\ status <= 299

\* resp.text().unwrap_or_default()
TextOrDefault(resp) == IF resp.read THEN resp.body ELSE <<>>

\* text.contains("rate limit")
ContainsRateLimit(text) == \E i \in DOMAIN text : text[i] = "rate limit"

Ok(value) == [is_ok |-> TRUE, value |-> value, msg |-> "", status |-> 0, text |-> <<>>]

Err(msg, status, text) ==
    [is_ok |-> FALSE, value |-> <<>>, msg |-> msg, status |-> status, text |-> text]

\* anyhow!("GitHub API Rate Limit Exceeded. Please try again later.")
RateLimitExceeded == Err("GitHub API Rate Limit Exceeded. Please try again later.", 0, <<>>)

\* the error of send()?, bytes()? or json()?
ReqwestError == Err("reqwest::Error", 0, <<>>)

\* the branch taken on a response that is not a success
StatusError(prefix, resp) ==
    IF resp.status = 403 /\ ContainsRateLimit(TextOrDefault(resp))
    THEN RateLimitExceeded
    ELSE Err(prefix, resp.status, TextOrDefault(resp))

fetch_tree(resp) ==
    IF ~resp.sent THEN ReqwestError
    ELSE IF ~IsSuccess(resp.status) THEN StatusError("GitHub API Error", resp)
    ELSE IF resp.read /\ resp.body = <<"{tree}">> THEN Ok(resp.body)
    ELSE ReqwestError

download_file(resp) ==
    IF ~resp.sent THEN ReqwestError
    ELSE IF resp.read THEN Ok(resp.body)
    ELSE ReqwestError

download_repo_zip(resp) ==
    IF ~resp.sent THEN ReqwestError
    ELSE IF ~IsSuccess(resp.status) THEN StatusError("Failed to download zip", resp)
    ELSE IF resp.read THEN Ok(resp.body)
    ELSE ReqwestError

HttpInit == http = [call |-> "none", resp |-> NoResponse, result |-> ReqwestError]

-----------------------------------------------------------------------------
(* The pure parts of sync *)

\* path.find('/') is Some: the name holds a separator
HasSlash(n) == Len(n.segs) >= 2 \/ n.dir

\* root_name: "" is <<>>, "seg/" is <<seg>>
FindRootName(arch) ==
    IF Len(arch) > 0
    THEN IF HasSlash(arch[1].name) THEN <<arch[1].name.segs[1]>> ELSE <<>>
    ELSE <<>>

\* file_name.starts_with(&root_name)
StartsWithRoot(n, rn) ==
    rn = <<>> \/ (Len(n.segs) >= 1 /\ n.segs[1] = rn[1] /\ HasSlash(n))

\* the prefix left in place
StripRoot_Kept(n, rn) == n.segs

\* &file_name[root_name.len()..]
StripRoot(n, rn) == IF rn = <<>> THEN n.segs ELSE Tail(n.segs)

\* the first segments that begin with the characters ".git"
DotGitPrefixed == {".git", ".gitignore", ".github", ".gitattributes"}

\* the first segment compared with ".git" as a whole
StartsWithDotGit_WholeSegment(rel) == rel[1] = ".git"

\* relative_path.starts_with(".git")
StartsWithDotGit(rel) == rel[1] \in DotGitPrefixed

\* the first segments that begin with the character "."
DotPrefixed == DotGitPrefixed \cup {".env", ".DS_Store"}

\* scan_local_files: relative_path.starts_with(".")
StartsWithDot(rel) == rel[1] \in DotPrefixed

\* the entry is passed over by the loop
SkipEntry(e, rn) ==
    \/ e.name.dir
    \/ ~StartsWithRoot(e.name, rn)
    \/ StripRoot(e.name, rn) = <<>>
    \/ StartsWithDotGit(StripRoot(e.name, rn))

FileNameOf(p) == p[Len(p)]

\* the ignore-list compared with the whole relative path, not the file name
IsIgnored_PathCompared(p) == p = <<".DS_Store">> \/ p = <<"Thumbs.db">>

\* file_name == ".DS_Store" || file_name == "Thumbs.db"
IsIgnored(p) == FileNameOf(p) = ".DS_Store" \/ FileNameOf(p) = "Thumbs.db"

\* the comparison left out: only a missing file counts as different
IsDifferent_ExistsOnly(files, p, content, readOk) == p \notin DOMAIN files

\* is_different after the comparison: exists, readable and equal means unchanged
IsDifferent(files, p, content, readOk) ==
    ~(p \in DOMAIN files /\ readOk /\ files[p] = content)

\* the category chosen without the look at the disk
ChangeKind_AlwaysUpdated(files, p) == "Updated"

\* the category of the message logged before fs::write
ChangeKind(files, p) == IF p \in DOMAIN files THEN "Updated" ELSE "New"

\* processed_files.insert left out
MarkProcessed_Forgotten(done, p) == done

\* processed_files.insert(target_path.clone())
MarkProcessed(done, p) == done \cup {p}

\* the loop going over the same entry again
NextIndex_Stuck(i) == i

\* for i in 0..archive.len(): the index of the pass after pass i
NextIndex(i) == i + 1

\* the result of read_to_end dropped and the entry passed over
ReadAborts_Dropped(failed) == FALSE

\* file.read_to_end(&mut content)?: whether sync returns on the result of the call
ReadAborts(failed) == failed

\* the calls of sync that return a Result
Calls ==
    {"download_repo_zip", "ZipArchive::new", "by_index", "create_dir_all",
     "read_to_end", "fs::read", "fs::write", "walkdir", "remove_file"}

\* the content of a file whose write stopped half way
Truncated == "partial"

Event(kind, path) == [kind |-> kind, path |-> path]

\* the terminal message left out
CompleteOut_Silent(o) == o

\* log("Update complete!")
CompleteOut(o) == Append(o, Event("Complete", <<>>))

-----------------------------------------------------------------------------
(* Patcher::sync, one run per worker w *)

\* the logger replacing the content of the log by the new message
Log_Overwrites(w, o) ==
    /\ out' = [out EXCEPT ![w] = o]
    /\ progress_log' = IF logger[w]
                       THEN SubSeq(o, Len(out[w]) + 1, Len(o))
                       ELSE progress_log

\* the log closure: the logger when there is one, and stdout
Log(w, o) ==
    /\ out' = [out EXCEPT ![w] = o]
    /\ progress_log' = IF logger[w]
                       THEN progress_log \o SubSeq(o, Len(out[w]) + 1, Len(o))
                       ELSE progress_log

\* sync returns: its locals are dropped
Return(w, where) ==
    /\ pc' = [pc EXCEPT ![w] = where]
    /\ root_name' = [root_name EXCEPT ![w] = <<>>]
    /\ idx' = [idx EXCEPT ![w] = 0]
    /\ processed_files' = [processed_files EXCEPT ![w] = {}]
    /\ todo' = [todo EXCEPT ![w] = {}]

Goto(w, where) == pc' = [pc EXCEPT ![w] = where]

\* the call named `call` returned an error
Failed(w, call) == io_errors' = [io_errors EXCEPT ![w] = @ \cup {call}]

LogDownloading(w) ==
    /\ pc[w] = "begin"
    /\ Log(w, Append(out[w], Event("Downloading", <<>>)))
    /\ Goto(w, "download")
    /\ UNCHANGED <<archive, faulty, http, fs, dirs, guiVars, mod_path, logger, root_name, idx,
                   processed_files, todo, runVars, runs, histVars>>

\* self.client.download_repo_zip(branch)?
DownloadRepoZip(w) ==
    /\ pc[w] = "download"
    /\ \E ok \in {TRUE} \cup {FALSE : x \in faulty \cap {"download_repo_zip"}} :
         IF ok
         THEN /\ Goto(w, "extract")
              /\ UNCHANGED <<root_name, idx, processed_files, todo, io_errors>>
         ELSE Return(w, "returned_err") /\ Failed(w, "download_repo_zip")
    /\ UNCHANGED <<archive, faulty, http, fs, dirs, progress_log, guiVars, mod_path, logger, out,
                   writes, removes, start_fs, runs, histVars>>

LogExtracting(w) ==
    /\ pc[w] = "extract"
    /\ Log(w, Append(out[w], Event("Extracting", <<>>)))
    /\ Goto(w, "open")
    /\ UNCHANGED <<archive, faulty, http, fs, dirs, guiVars, mod_path, logger, root_name, idx,
                   processed_files, todo, runVars, runs, histVars>>

\* ZipArchive::new(cursor)?, then root_name from archive.by_index(0)?
OpenArchive(w) ==
    /\ pc[w] = "open"
    /\ \E fault \in {"none"} \cup (faulty \cap {"ZipArchive::new", "by_index"}) :
         /\ fault = "by_index" => Len(archive) > 0
         /\ IF fault = "none"
            THEN /\ Goto(w, "loop")
                 /\ root_name' = [root_name EXCEPT ![w] = FindRootName(archive)]
                 /\ idx' = [idx EXCEPT ![w] = 1]
                 /\ UNCHANGED <<processed_files, todo, io_errors>>
            ELSE Return(w, "returned_err") /\ Failed(w, fault)
    /\ UNCHANGED <<archive, faulty, http, fs, dirs, progress_log, guiVars, mod_path, logger, out,
                   writes, removes, start_fs, runs, histVars>>

\* one pass of the loop up to the comparison
ProcessEntry(w) ==
    /\ pc[w] = "loop"
    /\ idx[w] <= Len(archive)
    /\ LET e == archive[idx[w]]
           rel == StripRoot(e.name, root_name[w])
           files == fs[mod_path[w]]
           skip == SkipEntry(e, root_name[w])
       IN \E fault \in {"none"} \cup
                    (faulty \cap {"by_index", "create_dir_all", "read_to_end", "fs::read"}) :
            CASE fault = "by_index" ->
                   /\ Return(w, "returned_err") /\ Failed(w, fault)
                   /\ UNCHANGED dirs
              [] fault # "by_index" /\ skip ->
                   /\ fault = "none"
                   /\ idx' = [idx EXCEPT ![w] = NextIndex(@)]
                   /\ UNCHANGED <<pc, root_name, processed_files, todo, dirs, io_errors>>
              [] fault = "create_dir_all" /\ ~skip ->
                   /\ Return(w, "returned_err") /\ Failed(w, fault)
                   /\ UNCHANGED dirs
              [] fault = "read_to_end" /\ ~skip ->
                   /\ Failed(w, fault)
                   /\ dirs' = [dirs EXCEPT ![mod_path[w]] = @ \cup ParentsOf(rel)]
                   /\ IF ReadAborts(TRUE)
                      THEN Return(w, "returned_err")
                      ELSE /\ processed_files' =
                                [processed_files EXCEPT ![w] = MarkProcessed(@, rel)]
                           /\ idx' = [idx EXCEPT ![w] = NextIndex(@)]
                           /\ UNCHANGED <<pc, root_name, todo>>
              [] fault \in {"none", "fs::read"} /\ ~skip ->
                   /\ fault = "fs::read" => rel \in DOMAIN files
                   /\ IF fault = "none" THEN UNCHANGED io_errors ELSE Failed(w, fault)
                   /\ dirs' = [dirs EXCEPT ![mod_path[w]] = @ \cup ParentsOf(rel)]
                   /\ processed_files' =
                        [processed_files EXCEPT ![w] = MarkProcessed(@, rel)]
                   /\ IF IsDifferent(files, rel, e.data, fault = "none")
                      THEN Goto(w, "apply") /\ UNCHANGED idx
                      ELSE idx' = [idx EXCEPT ![w] = NextIndex(@)] /\ UNCHANGED pc
                   /\ UNCHANGED <<root_name, todo>>
    /\ UNCHANGED <<archive, faulty, http, fs, progress_log, guiVars, mod_path, logger, out,
                   writes, removes, start_fs, runs, histVars>>

\* the message and the fs::write of an entry that differs; a write that fails
\* leaves the file as it was, or created and cut short
ApplyEntry(w) ==
    /\ pc[w] = "apply"
    /\ LET e == archive[idx[w]]
           rel == StripRoot(e.name, root_name[w])
           files == fs[mod_path[w]]
       IN /\ Log(w, Append(out[w], Event(ChangeKind(files, rel), rel)))
          /\ \E outcome \in {"written"} \cup
                  {o \in {"untouched", "truncated"} : "fs::write" \in faulty} :
               IF outcome = "written"
               THEN /\ fs' = [fs EXCEPT ![mod_path[w]] = Merge(@, rel :> e.data)]
                    /\ writes' = [writes EXCEPT ![w] = @ \cup {rel}]
                    /\ Goto(w, "loop")
                    /\ idx' = [idx EXCEPT ![w] = NextIndex(@)]
                    /\ UNCHANGED <<root_name, processed_files, todo, io_errors>>
               ELSE /\ Return(w, "returned_err") /\ Failed(w, "fs::write")
                    /\ fs' = IF outcome = "truncated"
                             THEN [fs EXCEPT ![mod_path[w]] = Merge(@, rel :> Truncated)]
                             ELSE fs
                    /\ UNCHANGED writes
    /\ UNCHANGED <<archive, faulty, http, dirs, guiVars, mod_path, logger, removes, start_fs,
                   runs, histVars>>

\* the walk opened without the message
LogCleaning_Silent(w) ==
    /\ pc[w] = "loop"
    /\ idx[w] > Len(archive)
    /\ Goto(w, "walk")
    /\ todo' = [todo EXCEPT ![w] = DOMAIN fs[mod_path[w]]]
    /\ UNCHANGED <<archive, faulty, http, fs, dirs, guiVars, mod_path, logger, root_name, idx,
                   processed_files, runVars, runs, histVars, out, progress_log>>

\* the loop is over: the message, and the walk opens the root
LogCleaning(w) ==
    /\ pc[w] = "loop"
    /\ idx[w] > Len(archive)
    /\ Log(w, Append(out[w], Event("Cleaning", <<>>)))
    /\ Goto(w, "walk")
    /\ todo' = [todo EXCEPT ![w] = DOMAIN fs[mod_path[w]]]
    /\ UNCHANGED <<archive, faulty, http, fs, dirs, guiVars, mod_path, logger, root_name, idx,
                   processed_files, runVars, runs, histVars>>

\* the result of remove_file handed on with `?`
RemoveFileAborts_Propagated(failed) == failed

\* let _ = fs::remove_file(path): whether sync returns on the result of the call
RemoveFileAborts(failed) == FALSE

\* one entry of the walk, which yields the files in an order of its own; an
\* entry that is an error is filtered out, the result of remove_file (an error
\* also when the file is gone by now) is dropped
WalkEntry(w) ==
    /\ pc[w] = "walk"
    /\ \E p \in todo[w] :
       LET files == fs[mod_path[w]]
           kept == p \in processed_files[w] \/ IsIgnored(p)
       IN \E outcome \in {"walk_err", "kept", "removed", "remove_err"} :
            /\ IF outcome = "remove_err" /\ RemoveFileAborts(TRUE)
               THEN Return(w, "returned_err")
               ELSE /\ todo' = [todo EXCEPT ![w] = @ \ {p}]
                    /\ UNCHANGED <<pc, root_name, idx, processed_files>>
            /\ CASE outcome = "walk_err" ->
                      /\ "walkdir" \in faulty
                      /\ Failed(w, "walkdir")
                      /\ UNCHANGED <<fs, removes, out, progress_log>>
                 [] outcome = "kept" ->
                      /\ kept
                      /\ UNCHANGED <<fs, removes, out, progress_log, io_errors>>
                 [] outcome = "removed" ->
                      /\ ~kept /\ p \in DOMAIN files
                      /\ Log(w, Append(out[w], Event("Deleted", p)))
                      /\ fs' = [fs EXCEPT ![mod_path[w]] =
                                  [q \in DOMAIN files \ {p} |-> files[q]]]
                      /\ removes' = [removes EXCEPT ![w] = @ \cup {p}]
                      /\ UNCHANGED io_errors
                 [] outcome = "remove_err" ->
                      /\ ~kept
                      /\ "remove_file" \in faulty \/ p \notin DOMAIN files
                      /\ Log(w, Append(out[w], Event("Deleted", p)))
                      /\ Failed(w, "remove_file")
                      /\ UNCHANGED <<fs, removes>>
    /\ UNCHANGED <<archive, faulty, http, dirs, guiVars, mod_path, logger, writes, start_fs,
                   runs, histVars>>

\* the walk is over: the terminal message and Ok(())
LogComplete(w) ==
    /\ pc[w] = "walk"
    /\ todo[w] = {}
    /\ Log(w, CompleteOut(out[w]))
    /\ Return(w, "returned_ok")
    /\ UNCHANGED <<archive, faulty, http, fs, dirs, guiVars, mod_path, logger, runVars, runs,
                   histVars>>

Sync(w) ==
    \/ LogDownloading(w)
    \/ DownloadRepoZip(w)
    \/ LogExtracting(w)
    \/ OpenArchive(w)
    \/ ProcessEntry(w)
    \/ ApplyEntry(w)
    \/ LogCleaning(w)
    \/ WalkEntry(w)
    \/ LogComplete(w)

-----------------------------------------------------------------------------
(* The command line tool *)

Finished(w) == pc[w] \in {"returned_ok", "returned_err", "exited_err"}

Outcome(w) ==
    IF pc[w] = "returned_ok" THEN "Ok"
    ELSE IF pc[w] \in {"returned_err", "exited_err"} THEN "Err" ELSE None

\* main: one process run calls sync once, with no logger
Main(w) ==
    /\ runs < MaxRuns
    /\ runs' = runs + 1
    /\ prev' = Outcome(w)
    /\ pc' = [pc EXCEPT ![w] = "begin"]
    /\ mod_path' = [mod_path EXCEPT ![w] = CliRoot]
    /\ logger' = [logger EXCEPT ![w] = FALSE]
    /\ out' = [out EXCEPT ![w] = <<>>]
    /\ writes' = [writes EXCEPT ![w] = {}]
    /\ removes' = [removes EXCEPT ![w] = {}]
    /\ start_fs' = [start_fs EXCEPT ![w] = fs[CliRoot]]
    /\ io_errors' = [io_errors EXCEPT ![w] = {}]
    /\ UNCHANGED <<archive, faulty, http, fs, dirs, progress_log, guiVars, root_name, idx,
                   processed_files, todo, orig>>

\* the tool is run for the first time
MainRun == pc[1] = "unborn" /\ Main(1)

\* the tool is run again after a run has ended
MainRerun == Finished(1) /\ Main(1)

WorkersInit ==
    /\ pc = [w \in Workers |-> "unborn"]
    /\ mod_path = [w \in Workers |-> NoPath]
    /\ logger = [w \in Workers |-> FALSE]
    /\ root_name = [w \in Workers |-> <<>>]
    /\ idx = [w \in Workers |-> 0]
    /\ processed_files = [w \in Workers |-> {}]
    /\ todo = [w \in Workers |-> {}]
    /\ out = [w \in Workers |-> <<>>]
    /\ writes = [w \in Workers |-> {}]
    /\ removes = [w \in Workers |-> {}]
    /\ start_fs = [w \in Workers |-> <<>>]
    /\ io_errors = [w \in Workers |-> {}]
    /\ runs = 0
    /\ prev = None

GuiInit ==
    /\ game_path = None
    /\ target_mod_path = NoPath
    /\ state = "Idle"
    /\ frame = "top"
    /\ progress_log = <<>>

Init ==
    /\ archive \in Archives
    /\ faulty = Calls
    /\ \E t \in LocalTrees :
         /\ fs = [r \in Roots |-> IF r = CliRoot THEN t ELSE <<>>]
         /\ dirs = [r \in Roots |-> IF r = CliRoot THEN DirsOf(t) ELSE {}]
         /\ orig = t
    /\ GuiInit
    /\ HttpInit
    /\ WorkersInit

Next ==
    \/ MainRun
    \/ \E w \in Workers : Sync(w)

Spec == Init /\ [][Next]_vars

NextRerun ==
    \/ MainRun
    \/ MainRerun
    \/ \E w \in Workers : Sync(w)

SpecRerun == Init /\ [][NextRerun]_vars

\* the command line tool, run once, on a thread the scheduler keeps running:
\* a step of sync that can be taken is taken
SpecFair == Init /\ [][Next]_vars /\ \A w \in Workers : WF_vars(Sync(w))

\* another process removes a file of the root that the walk of run w has still
\* to yield and that the run is going to delete
Vanish(w) ==
    /\ pc[w] = "walk"
    /\ \E p \in todo[w] \cap DOMAIN fs[mod_path[w]] :
         /\ p \notin processed_files[w] /\ ~IsIgnored(p)
         /\ fs' = [fs EXCEPT ![mod_path[w]] = [q \in DOMAIN @ \ {p} |-> @[q]]]
    /\ UNCHANGED <<archive, faulty, http, dirs, progress_log, guiVars, pc, mod_path, logger,
                   root_name, idx, processed_files, todo, out, runVars, runs, histVars>>

\* the command line tool on a root other processes write to, every call of
\* sync succeeding unless its file is gone
InitShared ==
    /\ archive \in Archives
    /\ faulty = {}
    /\ \E t \in LocalTrees :
         /\ fs = [r \in Roots |-> IF r = CliRoot THEN t ELSE <<>>]
         /\ dirs = [r \in Roots |-> IF r = CliRoot THEN DirsOf(t) ELSE {}]
         /\ orig = t
    /\ GuiInit
    /\ HttpInit
    /\ WorkersInit

NextShared ==
    \/ MainRun
    \/ \E w \in Workers : Sync(w)
    \/ \E w \in Workers : Vanish(w)

SpecShared == InitShared /\ [][NextShared]_vars


-----------------------------------------------------------------------------
(* The GUI: PatcherApp *)

\* what check_mod_folder meets on disk and on the network
CheckOutcomes ==
    {"no_mods", "fetch_err", "specific", "fallback", "generic", "not_found",
     "read_dir_err"}

\* the directory a successful lookup finds
FoundDir(outcome) ==
    CASE outcome = "specific" -> "conch_blessing_id"
      [] outcome = "fallback" -> "conch_blessing"
      [] outcome = "generic" -> "conch_blessing_x"

\* target_mod_path when check_mod_folder returns
CheckTarget(outcome, game, target) ==
    CASE outcome \in {"specific", "fallback", "generic"} -> ModDir(game, FoundDir(outcome))
      [] outcome \in {"no_mods", "not_found"} -> NoPath
      [] outcome \in {"fetch_err", "read_dir_err"} -> target

\* state when check_mod_folder returns
CheckState(outcome, st, newTarget) ==
    IF outcome = "no_mods" THEN st
    ELSE IF newTarget # NoPath THEN "Idle"
    ELSE IF outcome = "fetch_err" THEN "Error"
    ELSE "Checking"

\* last.contains("Update complete!") and last.contains("Error:")
ContainsComplete(e) == e.kind = "Complete"
ContainsError(e) == e.kind = "Error"

\* the end of update: the state after the last line of the locked log is read
LogCheck(st, lines) ==
    IF Len(lines) > 0 /\ st = "Syncing"
    THEN IF ContainsComplete(lines[Len(lines)]) THEN "Done"
         ELSE IF ContainsError(lines[Len(lines)]) THEN "Error"
         ELSE st
    ELSE st

\* check_mod_folder, and the rest of the frame that called it
check_mod_folder(game) ==
    \E outcome \in CheckOutcomes :
      /\ target_mod_path' = CheckTarget(outcome, game, target_mod_path)
      /\ state' = LogCheck(CheckState(outcome, state, target_mod_path'), progress_log)

\* a frame with a click on "Browse..." and a folder picked
Browse(game) ==
    /\ frame = "top"
    /\ game_path' = game
    /\ check_mod_folder(game)
    /\ UNCHANGED <<archive, faulty, http, fs, dirs, progress_log, frame, pc, mod_path, logger,
                   root_name, idx, processed_files, todo, out, runVars, runs,
                   histVars>>

\* a frame with a click on "Re-scan", shown while there is a game path and no target
Rescan ==
    /\ frame = "top"
    /\ target_mod_path = NoPath
    /\ game_path # None
    /\ check_mod_folder(game_path)
    /\ UNCHANGED <<archive, faulty, http, fs, dirs, progress_log, game_path, frame, pc, mod_path,
                   logger, root_name, idx, processed_files, todo, out, runVars, runs,
                   histVars>>

\* the thread start_patching spawns
NewWorker == CHOOSE w \in Workers : pc[w] = "unborn" /\ \A v \in 1..(w - 1) : pc[v] # "unborn"

start_patching ==
    /\ target_mod_path # NoPath
    /\ state' = "Syncing"
    /\ LET w == NewWorker
       IN /\ pc' = [pc EXCEPT ![w] = "begin"]
          /\ mod_path' = [mod_path EXCEPT ![w] = target_mod_path]
          /\ logger' = [logger EXCEPT ![w] = TRUE]
          /\ start_fs' = [start_fs EXCEPT ![w] = fs[target_mod_path]]

\* a frame with a click on "Update Now", shown unless the state is Syncing or
\* there is no target, up to the return of start_patching
UpdateNow ==
    /\ frame = "top"
    /\ state # "Syncing"
    /\ target_mod_path # NoPath
    /\ \E w \in Workers : pc[w] = "unborn"
    /\ start_patching
    /\ frame' = "log"
    /\ UNCHANGED <<archive, faulty, http, fs, dirs, progress_log, game_path, target_mod_path,
                   root_name, idx, processed_files, todo, out, writes, removes,
                   io_errors, runs, histVars>>

\* the end of a frame: of the one that started a worker, or of one with no click
ReadLog ==
    /\ frame \in {"top", "log"}
    /\ frame' = "top"
    /\ state' = LogCheck(state, progress_log)
    /\ UNCHANGED <<archive, faulty, http, fs, dirs, progress_log, game_path, target_mod_path, pc,
                   mod_path, logger, root_name, idx, processed_files, todo, out,
                   runVars, runs, histVars>>

\* the worker closure after sync returned Err(e)
PushError(w) ==
    /\ pc[w] = "returned_err"
    /\ logger[w]
    /\ progress_log' = Append(progress_log, Event("Error", <<>>))
    /\ pc' = [pc EXCEPT ![w] = "exited_err"]
    /\ UNCHANGED <<archive, faulty, http, fs, dirs, guiVars, mod_path, logger, root_name, idx,
                   processed_files, todo, out, runVars, runs, histVars>>

\* the worker thread is still running
InFlight(w) ==
    /\ pc[w] \notin {"unborn", "returned_ok", "exited_err"}
    /\ ~(pc[w] = "returned_err" /\ ~logger[w])

GuiArchive == << ZipEntry(<<"r", "a.lua">>, FALSE, "X") >>

GuiTree == <<"a.lua">> :> "Y"

InitGui ==
    /\ archive = GuiArchive
    /\ faulty = {"download_repo_zip"}
    /\ fs = [r \in Roots |-> GuiTree]
    /\ dirs = [r \in Roots |-> {}]
    /\ orig = GuiTree
    /\ game_path \in Games \cup {None}
    /\ target_mod_path = NoPath
    /\ state = "Idle"
    /\ frame = "top"
    /\ progress_log = <<>>
    /\ HttpInit
    /\ WorkersInit

NextGui ==
    \/ \E g \in Games : Browse(g)
    \/ Rescan
    \/ UpdateNow
    \/ ReadLog
    \/ \E w \in Workers : Sync(w)
    \/ \E w \in Workers : PushError(w)

SpecGui == InitGui /\ [][NextGui]_vars

\* the GUI with update called frame after frame and every worker thread kept
\* running
SpecGuiFair ==
    /\ InitGui
    /\ [][NextGui]_vars
    /\ WF_vars(ReadLog)
    /\ \A w \in Workers : WF_vars(Sync(w)) /\ WF_vars(PushError(w))


-----------------------------------------------------------------------------
(* GitHubClient: its requests as steps *)

\* one request of the client, answered by resp
Request(call, resp, result) ==
    /\ http' = [call |-> call, resp |-> resp, result |-> result]
    /\ UNCHANGED <<archive, faulty, fs, dirs, progress_log, guiVars, pc, mod_path, logger,
                   root_name, idx, processed_files, todo, out, runVars, runs, histVars>>

FetchTree == \E resp \in Responses : Request("fetch_tree", resp, fetch_tree(resp))

DownloadFile == \E resp \in Responses : Request("download_file", resp, download_file(resp))

DownloadZip ==
    \E resp \in Responses : Request("download_repo_zip", resp, download_repo_zip(resp))

InitRemote ==
    /\ archive = <<>>
    /\ faulty = {}
    /\ fs = [r \in Roots |-> <<>>]
    /\ dirs = [r \in Roots |-> {}]
    /\ orig = <<>>
    /\ HttpInit
    /\ GuiInit
    /\ WorkersInit

NextRemote ==
    \/ FetchTree
    \/ DownloadFile
    \/ DownloadZip

SpecRemote == InitRemote /\ [][NextRemote]_vars

-----------------------------------------------------------------------------
(* Notions the properties are stated in *)

\* the remote inventory: the file entries below the archive's prefix that sync takes
RemoteEntries ==
    { archive[i] : i \in { j \in DOMAIN archive : ~SkipEntry(archive[j], FindRootName(archive)) } }

RemotePath(e) == StripRoot(e.name, FindRootName(archive))

RemotePaths == { RemotePath(e) : e \in RemoteEntries }

RemoteContent(p) == (CHOOSE e \in RemoteEntries : RemotePath(e) = p).data

\* a platform noise marker, by file name
NoiseMarker(p) == p[Len(p)] \in {".DS_Store", "Thumbs.db"}

Started(w) == pc[w] # "unborn"

FilesOf(w) == fs[mod_path[w]]

\* the positions of the messages of the given kinds about path p in run w
EventsAbout(w, kinds, p) ==
    { i \in DOMAIN out[w] : out[w][i].kind \in kinds /\ out[w][i].path = p }

ActionKinds == {"New", "Updated", "Deleted"}

ActionEvents(w) == { i \in DOMAIN out[w] : out[w][i].kind \in ActionKinds }

CompleteEvents(w) == { i \in DOMAIN out[w] : out[w][i].kind = "Complete" }

\* the tree one successful run leaves, starting from tree t
ConvergedTree(t) ==
    [p \in RemotePaths \cup { q \in DOMAIN t : NoiseMarker(q) } |->
        IF p \in RemotePaths THEN RemoteContent(p) ELSE t[p]]

-----------------------------------------------------------------------------
(* C1 - C10 *)

\* C1 (convergence): once sync has returned Ok, every path of the remote
\* inventory is a local file with exactly the remote content, and every local
\* file is a remote path or carries an ignored file name.
C1_Convergence ==
    \A w \in Workers :
        pc[w] = "returned_ok" =>
            /\ \A p \in RemotePaths :
                 p \in DOMAIN FilesOf(w) /\ FilesOf(w)[p] = RemoteContent(p)
            /\ \A p \in DOMAIN FilesOf(w) : p \in RemotePaths \/ NoiseMarker(p)

\* C2 (idempotence): a run that follows a successful run, with the remote and the
\* root unchanged in between, logs no New/Updated/Deleted message, writes no
\* file and removes no file.
C2_Idempotence ==
    prev = "Ok" =>
        /\ ActionEvents(1) = {}
        /\ writes[1] = {}
        /\ removes[1] = {}

\* C3 (serialized runs): no two worker threads started by the GUI are in flight
\* on the same mod root at the same time.
C3_RunsSerialized ==
    \A v, w \in Workers :
        (v # w /\ InFlight(v) /\ InFlight(w)) => mod_path[v] # mod_path[w]

\* the calls C4 lists: archive download, archive entry read, parent-directory
\* creation, file write, file delete, directory walk
C4Calls ==
    {"download_repo_zip", "by_index", "read_to_end", "create_dir_all", "fs::write",
     "remove_file", "walkdir"}

\* C4 (failure abort): as soon as one of the listed calls has returned an error,
\* the run has ended with Err and without the terminal success message.
C4_FailureAborts ==
    \A w \in Workers :
        io_errors[w] \cap C4Calls # {} =>
            /\ Outcome(w) = "Err"
            /\ CompleteEvents(w) = {}

\* C5 (recovery): after a failed run every file holds the complete content it
\* had when the run began or the complete remote content, and a successful run
\* that follows a failed run leaves the tree a single successful run leaves.
C5_Recovery ==
    /\ Outcome(1) = "Err" =>
         \A p \in DOMAIN FilesOf(1) :
            \/ p \in DOMAIN start_fs[1] /\ FilesOf(1)[p] = start_fs[1][p]
            \/ p \in RemotePaths /\ FilesOf(1)[p] = RemoteContent(p)
    /\ (prev = "Err" /\ pc[1] = "returned_ok") => FilesOf(1) = ConvergedTree(orig)

\* C6 (deletion exclusion): a file named .DS_Store or Thumbs.db, in any
\* directory of the root, is never removed and never the subject of a Deleted
\* message; one that was there when the run began is still there.
C6_DeletionExclusion ==
    \A w \in Workers :
        Started(w) =>
            /\ \A i \in DOMAIN out[w] :
                 out[w][i].kind = "Deleted" => ~NoiseMarker(out[w][i].path)
            /\ \A p \in removes[w] : ~NoiseMarker(p)
            /\ \A p \in DOMAIN start_fs[w] : NoiseMarker(p) => p \in DOMAIN FilesOf(w)

\* a run ended with a noise marker in a subdirectory kept, absent remotely, and
\* another file removed
C6_Witness ==
    \E w \in Workers :
        /\ pc[w] = "returned_ok"
        /\ removes[w] # {}
        /\ \E p \in DOMAIN start_fs[w] :
             /\ NoiseMarker(p) /\ Len(p) > 1
             /\ p \notin RemotePaths
             /\ p \in DOMAIN FilesOf(w)

\* the paths present remotely and locally at the start of run w, with contents
\* that differ
Differing(w) ==
    { p \in RemotePaths \cap DOMAIN start_fs[w] : start_fs[w][p] # RemoteContent(p) }

\* C7 (update detection): a path present remotely and locally with differing
\* contents is never logged as New; once the loop is past it the path has been
\* logged as Updated, and when the run returns Ok the file holds the remote
\* content.
C7_UpdateDetection ==
    \A w \in Workers :
        Started(w) =>
            \A p \in Differing(w) :
                /\ EventsAbout(w, {"New"}, p) = {}
                /\ pc[w] \in {"walk", "returned_ok"} =>
                     EventsAbout(w, {"Updated"}, p) # {}
                /\ pc[w] = "returned_ok" =>
                     (p \in DOMAIN FilesOf(w) /\ FilesOf(w)[p] = RemoteContent(p))

\* a run that returned Ok after it overwrote a differing file
C7_Witness ==
    \E w \in Workers :
        /\ pc[w] = "returned_ok"
        /\ \E p \in Differing(w) : p \in writes[w] /\ EventsAbout(w, {"Updated"}, p) # {}

\* the paths present remotely and locally at the start of run w with equal content
Unchanged(w) ==
    { p \in RemotePaths \cap DOMAIN start_fs[w] : start_fs[w][p] = RemoteContent(p) }

\* C8 (no-op frame): a path present remotely and locally with equal content is
\* neither written nor removed by the run, keeps its content, and no
\* New/Updated/Deleted message names it.
C8_NoOpFrame ==
    \A w \in Workers :
        Started(w) =>
            \A p \in Unchanged(w) :
                /\ p \notin writes[w] \cup removes[w]
                /\ EventsAbout(w, ActionKinds, p) = {}
                /\ p \in DOMAIN FilesOf(w) /\ FilesOf(w)[p] = start_fs[w][p]

\* C9 (plan partition): in one run no path is named by more than one
\* New/Updated/Deleted message, and no path written in the run is removed or
\* logged as Deleted in it.
C9_PlanPartition ==
    \A w \in Workers :
        /\ \A i, j \in ActionEvents(w) : out[w][i].path = out[w][j].path => i = j
        /\ writes[w] \cap removes[w] = {}
        /\ \A p \in writes[w] : EventsAbout(w, {"Deleted"}, p) = {}

\* a run that returned Ok with a New, an Updated and a Deleted message
C9_Witness ==
    \E w \in Workers :
        /\ pc[w] = "returned_ok"
        /\ \A k \in ActionKinds : \E i \in DOMAIN out[w] : out[w][i].kind = k
        /\ writes[w] # {} /\ removes[w] # {}

\* C10 (terminal success event): a run that returned Ok logged the terminal
\* message exactly once, as its last message; a run that has not returned Ok,
\* a failed one included, has not logged it.
C10_TerminalEvent ==
    \A w \in Workers :
        /\ pc[w] = "returned_ok" =>
             /\ Cardinality(CompleteEvents(w)) = 1
             /\ out[w][Len(out[w])].kind = "Complete"
        /\ pc[w] # "returned_ok" => CompleteEvents(w) = {}

\* a run that returned Ok after it wrote and removed files
C10_Witness ==
    \E w \in Workers :
        /\ pc[w] = "returned_ok"
        /\ writes[w] # {} /\ removes[w] # {}
        /\ Len(out[w]) >= 6

-----------------------------------------------------------------------------
(* C11 - C20 *)

\* C11 (progress events): every file a run created, overwrote or removed is
\* named by exactly one New/Updated/Deleted message of the run, of the category
\* of what was done to it (New for a file that was not there, Updated for one
\* that was, Deleted for one removed), and every New/Updated/Deleted message of
\* the run names a path the run wrote or removed.
C11_ProgressEvents ==
    \A w \in Workers :
        /\ \A p \in writes[w] :
             /\ Cardinality(EventsAbout(w, ActionKinds, p)) = 1
             /\ EventsAbout(w, {IF p \in DOMAIN start_fs[w] THEN "Updated" ELSE "New"}, p) # {}
        /\ \A p \in removes[w] :
             /\ Cardinality(EventsAbout(w, ActionKinds, p)) = 1
             /\ EventsAbout(w, {"Deleted"}, p) # {}
        /\ \A i \in ActionEvents(w) : out[w][i].path \in writes[w] \cup removes[w]

\* C12 (archive format error): a run on an archive with no discoverable prefix
\* (no entry at all, or a first entry whose name holds no separator) does not
\* return Ok, writes no file, removes no file, logs no New/Updated/Deleted
\* message and leaves the files of the root as they were when it began.
C12_ArchiveFormatError ==
    \A w \in Workers :
        (Started(w) /\ (Len(archive) = 0 \/ ~HasSlash(archive[1].name))) =>
            /\ pc[w] # "returned_ok"
            /\ writes[w] = {} /\ removes[w] = {}
            /\ ActionEvents(w) = {}
            /\ FilesOf(w) = start_fs[w]

\* the number of archive entries the loop of run w has taken so far
Taken(w) == IF pc[w] = "apply" THEN idx[w] ELSE idx[w] - 1

\* C13 (prefix stripping): while a run is in its loop or its walk over an
\* archive whose first entry name holds a separator, root_name is that name's
\* first segment with the separator; every path the run has recorded is the
\* name of a file entry taken so far with exactly that prefix removed, and is
\* never the empty path (the entry equal to the prefix is dropped); and every
\* file entry taken so far that lies below the prefix, version-control names
\* apart, is recorded under its name with the prefix removed.
C13_PrefixStripping ==
    \A w \in Workers :
        (pc[w] \in {"loop", "apply", "walk"} /\ Len(archive) > 0 /\ HasSlash(archive[1].name)) =>
            LET pre == archive[1].name.segs[1]
            IN /\ root_name[w] = <<pre>>
               /\ \A p \in processed_files[w] :
                    /\ p # <<>>
                    /\ \E i \in 1..Taken(w) :
                         ~archive[i].name.dir /\ archive[i].name.segs = <<pre>> \o p
               /\ \A i \in 1..Taken(w) :
                    LET n == archive[i].name
                    IN (/\ ~n.dir /\ Len(n.segs) >= 2 /\ n.segs[1] = pre
                        /\ n.segs[2] \notin DotGitPrefixed)
                         => Tail(n.segs) \in processed_files[w]
               /\ \A p \in writes[w] : p # <<>> /\ p[1] # pre

\* a run in its walk over an archive that starts with the entry equal to the
\* prefix and holds a file two levels below it, recorded without the prefix
C13_Witness ==
    \E w \in Workers :
        /\ pc[w] = "walk"
        /\ Len(archive) = 2
        /\ archive[1].name = Name(<<"r">>, TRUE)
        /\ processed_files[w] = {<<"sub", "b.lua">>}
        /\ <<"sub", "b.lua">> \in writes[w]

\* the entries of the archive below its prefix, by position
UnderPrefix == { i \in DOMAIN archive : StartsWithRoot(archive[i].name, FindRootName(archive)) }

\* the name of entry i with the prefix removed
Stripped(i) == StripRoot(archive[i].name, FindRootName(archive))

\* run w has not written the path of entry i and no New/Updated message names it
PassedOver(w, i) ==
    /\ Stripped(i) \notin writes[w]
    /\ EventsAbout(w, {"New", "Updated"}, Stripped(i)) = {}

\* entry i takes part in run w: once the loop has taken it its path is recorded,
\* and when the run has returned Ok the file holds the entry's content
TakesPart(w, i) ==
    /\ (pc[w] \in {"loop", "apply", "walk"} /\ i <= Taken(w)) =>
         Stripped(i) \in processed_files[w]
    /\ pc[w] = "returned_ok" =>
         /\ Stripped(i) \in DOMAIN FilesOf(w)
         /\ FilesOf(w)[Stripped(i)] = archive[i].data

\* C14 as stated (remote dot-segment skipping): an entry below the prefix whose
\* stripped path is empty or whose first segment starts with a dot is never
\* written and never reported as New or Updated; every other file entry below
\* the prefix takes part in the run.
C14_DotSegmentSkipped ==
    \A w \in Workers : \A i \in UnderPrefix :
        Started(w) =>
            IF Stripped(i) = <<>> \/ StartsWithDot(Stripped(i))
            THEN PassedOver(w, i)
            ELSE ~archive[i].name.dir => TakesPart(w, i)

\* C14 as amended (version-control names skipped): an entry below the prefix
\* whose stripped path is empty or whose first segment starts with ".git" is
\* never written and never reported as New or Updated; every other file entry
\* below the prefix, one with another leading dot included, takes part in the
\* run.
C14_DotGitSkipped ==
    \A w \in Workers : \A i \in UnderPrefix :
        Started(w) =>
            IF Stripped(i) = <<>> \/ Stripped(i)[1] \in DotGitPrefixed
            THEN PassedOver(w, i)
            ELSE ~archive[i].name.dir => TakesPart(w, i)

\* a run returned Ok on an archive with .gitignore and .env below the prefix:
\* .env was written, .gitignore was not
C14_Witness ==
    \E w \in Workers :
        /\ pc[w] = "returned_ok"
        /\ \E i, j \in UnderPrefix :
             /\ Stripped(i) = <<".gitignore">> /\ Stripped(i) \notin DOMAIN FilesOf(w)
             /\ Stripped(j) = <<".env">> /\ Stripped(j) \in writes[w]

\* C15 (local dot-segment exclusion): a local file whose first path segment
\* starts with a dot is never removed by a run and never named by a Deleted
\* message, present remotely or not; one that was there when the run began is
\* still there.
C15_LocalDotExclusion ==
    \A w \in Workers :
        Started(w) =>
            \A p \in DOMAIN start_fs[w] :
                StartsWithDot(p) =>
                    /\ p \notin removes[w]
                    /\ EventsAbout(w, {"Deleted"}, p) = {}
                    /\ p \in DOMAIN FilesOf(w)

\* C16 (missing at delete): on a root where files may vanish under the walk and
\* no call fails otherwise, a run whose remove_file met a missing file does not
\* end with Err: it goes on with the walk, and once it has returned Ok its last
\* message is the terminal one and no file is left that the run had to delete.
C16_MissingAtDelete ==
    \A w \in Workers :
        "remove_file" \in io_errors[w] =>
            /\ pc[w] \in {"walk", "returned_ok"}
            /\ pc[w] = "returned_ok" =>
                 /\ out[w][Len(out[w])].kind = "Complete"
                 /\ \A p \in DOMAIN FilesOf(w) : p \in RemotePaths \/ NoiseMarker(p)

\* a run returned Ok after one file to delete had vanished and another was
\* removed by the run
C16_Witness ==
    \E w \in Workers :
        /\ pc[w] = "returned_ok"
        /\ "remove_file" \in io_errors[w]
        /\ removes[w] # {}
        /\ \E p \in DOMAIN start_fs[w] : p \notin removes[w] /\ p \notin DOMAIN FilesOf(w)

\* C17 (remote error kinds): for each of the three requests, a 403 response
\* whose text holds "rate limit" gives the rate-limit error, which no other
\* response gives; every other response that is not a success gives an error,
\* which carries the status when the body could be read, never an Ok value.
C17_RemoteErrorKinds ==
    http.call # "none" =>
        LET resp == http.resp
            limited == resp.status = 403 /\ resp.read
                       /\ \E i \in DOMAIN resp.body : resp.body[i] = "rate limit"
        IN /\ (resp.sent /\ limited) => http.result = RateLimitExceeded
           /\ ~(resp.sent /\ limited) => http.result # RateLimitExceeded
           /\ (resp.sent /\ ~limited /\ resp.status \notin 200..299) =>
                /\ ~http.result.is_ok
                /\ resp.read => http.result.status = resp.status

\* C18 (single-producer log): every step leaves progress_log as it was or
\* extends it at its end, the entries already there unchanged and in place; a
\* step that extends it is a step of a worker thread still running, which
\* leaves the fields of the foreground alone; and the messages a run hands to
\* its logger are appended as they are emitted.
C18_SingleProducerLog ==
    [][ /\ Len(progress_log') >= Len(progress_log)
        /\ SubSeq(progress_log', 1, Len(progress_log)) = progress_log
        /\ progress_log' # progress_log =>
             /\ UNCHANGED guiVars
             /\ \E w \in Workers :
                  /\ InFlight(w) /\ logger[w]
                  /\ out'[w] # out[w] \/ pc'[w] = "exited_err"
        /\ \A w \in Workers :
             (logger[w] /\ out'[w] # out[w]) =>
                 progress_log' = progress_log \o SubSeq(out'[w], Len(out[w]) + 1, Len(out'[w]))
      ]_vars

\* the foreground has read a log that two worker threads appended to: it holds
\* the error of one run and, as its last line, the terminal message of another
C18_Witness ==
    /\ state = "Done"
    /\ \E i \in DOMAIN progress_log : progress_log[i].kind = "Error"
    /\ progress_log[Len(progress_log)].kind = "Complete"
    /\ \A w \in Workers : logger[w] /\ ~InFlight(w)

\* a step of run w
StepOf(w) ==
    <<pc[w], idx[w], todo[w], out[w], processed_files[w], io_errors[w]>>' #
    <<pc[w], idx[w], todo[w], out[w], processed_files[w], io_errors[w]>>

\* C19 (run termination): a run that has started eventually ends, with Ok or
\* with Err; every step that stays in the loop moves on to the next entry and
\* every step that stays in the walk leaves fewer entries to yield; once the
\* run has ended its outcome never changes, so it never ends in both; and a
\* run that ended with Ok logged the terminal message last.
C19_RunTermination ==
    /\ \A w \in Workers : Started(w) ~> Finished(w)
    /\ [][\A w \in Workers :
            /\ (StepOf(w) /\ pc[w] \in {"loop", "apply"} /\ pc'[w] = "loop") =>
                 idx'[w] = idx[w] + 1
            /\ (StepOf(w) /\ pc[w] = "walk" /\ pc'[w] = "walk") =>
                 (todo'[w] \subseteq todo[w] /\ todo'[w] # todo[w])
            /\ Finished(w) => pc'[w] = pc[w]]_vars
    /\ [](\A w \in Workers :
            /\ Outcome(w) \in {None, "Ok", "Err"}
            /\ pc[w] = "returned_ok" => out[w][Len(out[w])].kind = "Complete")

\* a run ended with Ok after two passes of the loop that wrote a file each and
\* a walk that removed a file
C19_Witness ==
    \E w \in Workers :
        /\ Finished(w) /\ Outcome(w) = "Ok"
        /\ Cardinality(writes[w]) >= 2
        /\ Cardinality(removes[w]) >= 1
        /\ io_errors[w] = {}

\* the calls that read the archive and its entries
ReadCalls == {"ZipArchive::new", "by_index", "read_to_end"}

\* C20 as stated (plan before apply): a run writes or removes a file only once
\* every entry of the archive has been read and compared, and a run in which
\* reading an entry or comparing it with the local file met an error has
\* written and removed nothing and left the files of the root as they were.
C20_PlanBeforeApply ==
    \A w \in Workers :
        /\ (pc[w] \in {"loop", "apply"} /\ Taken(w) < Len(archive)) =>
             (writes[w] = {} /\ removes[w] = {})
        /\ io_errors[w] \cap (ReadCalls \cup {"fs::read"}) # {} =>
             /\ writes[w] = {} /\ removes[w] = {}
             /\ FilesOf(w) = start_fs[w]

\* C20 as amended (entry by entry): a run handles the entries one at a time in
\* archive order, so while it is in the loop it has written only paths of
\* entries taken so far; it removes files and logs Deleted only once the loop
\* is over; and a run in which reading the archive or an entry met an error has
\* ended with Err, has removed no file, and has left every file either as it
\* was when the run began or, for a path the run wrote, holding the complete
\* remote content.
C20_EntryByEntry ==
    \A w \in Workers :
        /\ pc[w] \in {"loop", "apply"} =>
             /\ \A p \in writes[w] : \E i \in 1..Taken(w) : Stripped(i) = p
             /\ removes[w] = {}
             /\ \A i \in DOMAIN out[w] : out[w][i].kind # "Deleted"
        /\ io_errors[w] \cap ReadCalls # {} =>
             /\ pc[w] = "returned_err"
             /\ removes[w] = {}
             /\ \A i \in DOMAIN out[w] : out[w][i].kind # "Deleted"
             /\ DOMAIN start_fs[w] \subseteq DOMAIN FilesOf(w)
             /\ \A p \in DOMAIN FilesOf(w) :
                  IF p \in writes[w]
                  THEN FilesOf(w)[p] = RemoteContent(p)
                  ELSE p \in DOMAIN start_fs[w] /\ FilesOf(w)[p] = start_fs[w][p]

\* a run ended with Err on reading its second entry, after it had written the
\* first, with a file it would have deleted still in place
C20_Witness ==
    \E w \in Workers :
        /\ pc[w] = "returned_err"
        /\ "read_to_end" \in io_errors[w]
        /\ writes[w] # {}
        /\ \E p \in DOMAIN FilesOf(w) : p \notin RemotePaths /\ ~NoiseMarker(p)

-----------------------------------------------------------------------------
(* C21 - C25 *)

\* the remote paths with no local file when run w began
Missing(w) == RemotePaths \ DOMAIN start_fs[w]

\* C21 (addition classification): a remote path with no local file when the
\* run began is never logged as Updated; once the run has written it, it has
\* been logged as New, its parent directories exist and the file holds exactly
\* the remote content; once the loop is over the path has been logged as New,
\* and when the run has returned Ok the file is there with the remote content.
C21_AdditionClassification ==
    \A w \in Workers :
        Started(w) =>
            \A p \in Missing(w) :
                /\ EventsAbout(w, {"Updated"}, p) = {}
                /\ p \in writes[w] =>
                     /\ EventsAbout(w, {"New"}, p) # {}
                     /\ ParentsOf(p) \subseteq dirs[mod_path[w]]
                     /\ p \in DOMAIN FilesOf(w) /\ FilesOf(w)[p] = RemoteContent(p)
                /\ pc[w] \in {"walk", "returned_ok"} =>
                     EventsAbout(w, {"New"}, p) # {}
                /\ pc[w] = "returned_ok" => p \in writes[w]

\* a run returned Ok after it created a file in a directory that was not there
C21_Witness ==
    \E w \in Workers :
        /\ pc[w] = "returned_ok"
        /\ \E p \in Missing(w) :
             /\ Len(p) > 1
             /\ ParentsOf(p) \cap DirsOf(start_fs[w]) = {}
             /\ p \in writes[w]

\* the worker threads started so far
StartedWorkers == { w \in Workers : Started(w) }

\* the run started last: start_patching takes the workers in order
Latest == CHOOSE w \in StartedWorkers : \A v \in StartedWorkers : v <= w

\* C22 (success reflects the latest run): whenever the state is Done, the run
\* started last has logged its terminal message and returned Ok; so a terminal
\* message of an earlier run never ends Syncing while the newer run is in
\* flight, and a run that failed is not shown as Done.
C22_SuccessReflectsLatest ==
    state = "Done" =>
        /\ StartedWorkers # {}
        /\ pc[Latest] = "returned_ok"
        /\ CompleteEvents(Latest) # {}

\* C23 (GUI terminal response): with update called frame after frame, every
\* run started by start_patching is eventually followed by the state Done with
\* the run returned Ok, or by the state Error with the run ended in an error,
\* whatever frames with Browse, Re-scan or Update Now come in between.
C23_GuiTerminalResponse ==
    \A w \in Workers :
        (Started(w) /\ logger[w]) ~>
            \/ pc[w] = "returned_ok" /\ state = "Done"
            \/ pc[w] = "exited_err" /\ state = "Error"

\* the place of a message in the order of a run
Phase(kind) ==
    CASE kind = "Downloading" -> 1
      [] kind = "Extracting" -> 2
      [] kind \in {"New", "Updated"} -> 3
      [] kind = "Cleaning" -> 4
      [] kind = "Deleted" -> 5
      [] kind = "Complete" -> 6

\* C24 (event ordering): the messages of a run start with Downloading, then
\* Extracting; then come the New/Updated messages, then Cleaning, then the
\* Deleted messages, then the terminal message: the order is never broken, each
\* of the four fixed messages appears at most once and none is skipped over, so
\* a failed run has logged a prefix of the sequence and a run that returned Ok
\* the whole of it.
C24_EventOrdering ==
    \A w \in Workers :
        /\ \A i \in DOMAIN out[w] :
             /\ i = 1 => out[w][i].kind = "Downloading"
             /\ i = 2 => out[w][i].kind = "Extracting"
             /\ i > 1 =>
                  LET a == Phase(out[w][i - 1].kind)
                      b == Phase(out[w][i].kind)
                  IN /\ a <= b
                     /\ (a = b) => (a \in {3, 5})
                     /\ b = 5 => a \in {4, 5}
                     /\ b = 4 => a \in {2, 3}
                     /\ b = 6 => a \in {4, 5}
        /\ pc[w] = "returned_ok" => out[w][Len(out[w])].kind = "Complete"
        /\ (Finished(w) /\ pc[w] # "returned_ok") => CompleteEvents(w) = {}

\* a run returned Ok whose messages hold a New or Updated one, then Cleaning,
\* then Deleted, then the terminal one
C24_Witness ==
    \E w \in Workers :
        /\ pc[w] = "returned_ok"
        /\ \E i, j, k \in DOMAIN out[w] :
             /\ i < j /\ j < k /\ k < Len(out[w])
             /\ out[w][i].kind \in {"New", "Updated"}
             /\ out[w][j].kind = "Cleaning"
             /\ out[w][k].kind = "Deleted"

\* C25 (check_mod_folder leaves Checking): check_mod_folder does not return with
\* the state at Checking: whatever the metadata fetch and the lookup of the mod
\* directory gave, no frame ends with state = Checking.
C25_CheckingIsTransient ==
    state # "Checking"

====
